---------------------------- MODULE Spec2Model ----------------------------
(***************************************************************************)
(* Income tax under the old and the new regime (old_tax, new_tax of        *)
(* tax.py, tax2.py and tax3.py) and the population aggregation of          *)
(* tax3.py / tax2.py: per-slab savings, weighted total, average, yearly    *)
(* projection, inflation adjustment and the GDP estimate.                  *)
(*                                                                         *)
(* Amounts are exact rationals [num, den] in lowest terms: the Python      *)
(* literals 0.05, 0.10, ... are the decimal fractions they denote, and     *)
(* *, +, -, / are exact.  Taxpayer counts and the GDP figure are drawn     *)
(* from small sets, since the literal figures of the scripts exceed the    *)
(* 32-bit integers of TLC.                                                 *)
(***************************************************************************)
EXTENDS Integers, Sequences, FiniteSets, TLC

VARIABLES
    \* ---- calls of the tax functions ----
    pc,            \* which call comes next
    income,        \* argument of the calls in progress
    old_ret,       \* outcome of tax3.old_tax(income)
    new_ret,       \* outcome of tax3.new_tax(income)
    tax2_ret,      \* outcomes of tax2.old_tax / tax2.new_tax (income)
    tax_ret,       \* outcomes of tax.old_tax / tax.new_tax (income)
    prev,          \* the previous argument and tax3's outcomes for it
    \* ---- tax3.py / tax2.py script state ----
    step,                    \* position in the script
    taxpayer_counts,         \* year -> number of taxpayers
    todo,                    \* items of taxpayer_distribution not yet visited
    slab_names,
    savings_per_taxpayer,
    num_taxpayers_slab,
    aggregate_savings_slab,
    total_aggregate_savings_AY2425,
    avg_saving_AY2425,
    real_total_savings_AY2425,
    aggregate_savings_yearly,
    real_aggregate_savings_yearly,
    current_gdp,
    gdp_increase_nominal,
    gdp_outcome,
    \* ---- tax.py script state ----
    sample_step,             \* position in the script
    total_taxpayers,
    incomes_sample,
    old_taxes,
    new_taxes,
    tax_savings,
    avg_saving_sample,
    total_savings

taxVars == <<pc, income, old_ret, new_ret, tax2_ret, tax_ret, prev>>

scriptVars == <<step, taxpayer_counts, todo, slab_names, savings_per_taxpayer,
                num_taxpayers_slab, aggregate_savings_slab,
                total_aggregate_savings_AY2425, avg_saving_AY2425,
                real_total_savings_AY2425, aggregate_savings_yearly,
                real_aggregate_savings_yearly, current_gdp,
                gdp_increase_nominal, gdp_outcome>>

sampleVars == <<sample_step, total_taxpayers, incomes_sample, old_taxes,
                new_taxes, tax_savings, avg_saving_sample, total_savings>>

vars == <<taxVars, scriptVars, sampleVars>>

-----------------------------------------------------------------------------
(* Bounds of the model *)

\* incomes g - Delta .. g + Delta are tried around every slab threshold g
Delta == 2

\* incomes k * 250,000 for k = -1 .. MaxGrid are tried as well
MaxGrid == 14

\* every assessment year has 1 .. MaxTaxpayers taxpayers
MaxTaxpayers == 2

\* incomes_sample holds 1 .. MaxSample incomes
MaxSample == 2

-----------------------------------------------------------------------------
(* Exact arithmetic on amounts *)

Abs(n) == IF n < 0 THEN -n ELSE n

RECURSIVE GCD(_, _)
GCD(a, b) == IF b = 0 THEN a ELSE GCD(b, a % b)

\* n / d in lowest terms, d > 0
Rat(n, d) ==
    LET g == GCD(Abs(n), d)
    IN  [num |-> n \div g, den |-> d \div g]

FromInt(n) == [num |-> n, den |-> 1]

Zero == FromInt(0)

RatAdd(x, y) ==
    LET g == GCD(x.den, y.den)
        l == (x.den \div g) * y.den
    IN  Rat(x.num * (l \div x.den) + y.num * (l \div y.den), l)

RatNeg(x) == [num |-> -x.num, den |-> x.den]

RatSub(x, y) == RatAdd(x, RatNeg(y))

RatMul(x, y) ==
    LET g1 == GCD(Abs(x.num), y.den)
        g2 == GCD(Abs(y.num), x.den)
    IN  Rat((x.num \div g1) * (y.num \div g2), (x.den \div g2) * (y.den \div g1))

\* x / y for y # 0 (Python raises ZeroDivisionError for y = 0: see the callers)
RatDiv(x, y) ==
    IF y.num > 0 THEN RatMul(x, [num |-> y.den, den |-> y.num])
                 ELSE RatMul(x, [num |-> -y.den, den |-> -y.num])

RatLeq(x, y) == x.num * y.den <= y.num * x.den

RatLt(x, y) == x.num * y.den < y.num * x.den

Max(a, b) == IF a >= b THEN a ELSE b

Min(a, b) == IF a <= b THEN a ELSE b

\* a call that returned v
Return(v) == [kind |-> "return", value |-> v]

\* no call made yet
Pending == [kind |-> "pending"]

-----------------------------------------------------------------------------
(* tax3.py: the tax functions *)

\* the branches of old_tax's if-chain, in order; taxable is the taxable income
old_slab(k, taxable) ==
    CASE k = 1 -> Zero
      [] k = 2 -> RatMul(FromInt(taxable - 250000), Rat(5, 100))
      [] k = 3 -> RatAdd(RatMul(FromInt(250000), Rat(5, 100)),
                         RatMul(FromInt(taxable - 500000), Rat(20, 100)))
      [] k = 4 -> RatAdd(RatAdd(RatMul(FromInt(250000), Rat(5, 100)),
                                RatMul(FromInt(500000), Rat(20, 100))),
                         RatMul(FromInt(taxable - 1000000), Rat(30, 100)))

\* a slip in the 20% branch: the tax of the 5% slab is left out
old_tax_drops_lower_slab(income_) ==
    LET taxable == Max(income_ - 50000, 0)
    IN  IF taxable <= 250000 THEN old_slab(1, taxable)
        ELSE IF taxable <= 500000 THEN old_slab(2, taxable)
        ELSE IF taxable <= 1000000
             THEN RatMul(FromInt(taxable - 500000), Rat(20, 100))
        ELSE old_slab(4, taxable)

\* a slip in the deduction: new_tax's 75,000 for old_tax's 50,000
old_tax_wrong_deduction(income_) ==
    LET taxable == Max(income_ - 75000, 0)
    IN  IF taxable <= 250000 THEN old_slab(1, taxable)
        ELSE IF taxable <= 500000 THEN old_slab(2, taxable)
        ELSE IF taxable <= 1000000 THEN old_slab(3, taxable)
        ELSE old_slab(4, taxable)

old_tax(income_) ==
    LET taxable == Max(income_ - 50000, 0)
    IN  IF taxable <= 250000 THEN old_slab(1, taxable)
        ELSE IF taxable <= 500000 THEN old_slab(2, taxable)
        ELSE IF taxable <= 1000000 THEN old_slab(3, taxable)
        ELSE old_slab(4, taxable)

\* a slip in the 25% branch: the amount above 1,600,000 is taxed at 25%
new_slab_wrong_base(k, taxable) ==
    LET s5  == RatMul(FromInt(400000), Rat(5, 100))
        s10 == RatMul(FromInt(400000), Rat(10, 100))
        s15 == RatMul(FromInt(400000), Rat(15, 100))
        s20 == RatMul(FromInt(400000), Rat(20, 100))
        s25 == RatMul(FromInt(400000), Rat(25, 100))
    IN  CASE k = 1 -> Zero
          [] k = 2 -> RatMul(FromInt(taxable - 400000), Rat(5, 100))
          [] k = 3 -> RatAdd(s5, RatMul(FromInt(taxable - 800000), Rat(10, 100)))
          [] k = 4 -> RatAdd(RatAdd(s5, s10),
                             RatMul(FromInt(taxable - 1200000), Rat(15, 100)))
          [] k = 5 -> RatAdd(RatAdd(RatAdd(s5, s10), s15),
                             RatMul(FromInt(taxable - 1600000), Rat(20, 100)))
          [] k = 6 -> RatAdd(RatAdd(RatAdd(RatAdd(s5, s10), s15), s20),
                             RatMul(FromInt(taxable - 1600000), Rat(25, 100)))
          [] k = 7 -> RatAdd(RatAdd(RatAdd(RatAdd(RatAdd(s5, s10), s15), s20), s25),
                             RatMul(FromInt(taxable - 2400000), Rat(30, 100)))

\* the branches of new_tax's if-chain after the rebate test, in order
new_slab(k, taxable) ==
    LET s5  == RatMul(FromInt(400000), Rat(5, 100))
        s10 == RatMul(FromInt(400000), Rat(10, 100))
        s15 == RatMul(FromInt(400000), Rat(15, 100))
        s20 == RatMul(FromInt(400000), Rat(20, 100))
        s25 == RatMul(FromInt(400000), Rat(25, 100))
    IN  CASE k = 1 -> Zero
          [] k = 2 -> RatMul(FromInt(taxable - 400000), Rat(5, 100))
          [] k = 3 -> RatAdd(s5, RatMul(FromInt(taxable - 800000), Rat(10, 100)))
          [] k = 4 -> RatAdd(RatAdd(s5, s10),
                             RatMul(FromInt(taxable - 1200000), Rat(15, 100)))
          [] k = 5 -> RatAdd(RatAdd(RatAdd(s5, s10), s15),
                             RatMul(FromInt(taxable - 1600000), Rat(20, 100)))
          [] k = 6 -> RatAdd(RatAdd(RatAdd(RatAdd(s5, s10), s15), s20),
                             RatMul(FromInt(taxable - 2000000), Rat(25, 100)))
          [] k = 7 -> RatAdd(RatAdd(RatAdd(RatAdd(RatAdd(s5, s10), s15), s20), s25),
                             RatMul(FromInt(taxable - 2400000), Rat(30, 100)))

\* the if-chain of new_tax after the rebate test
new_chain(taxable) ==
    IF taxable <= 400000 THEN new_slab(1, taxable)
    ELSE IF taxable <= 800000 THEN new_slab(2, taxable)
    ELSE IF taxable <= 1200000 THEN new_slab(3, taxable)
    ELSE IF taxable <= 1600000 THEN new_slab(4, taxable)
    ELSE IF taxable <= 2000000 THEN new_slab(5, taxable)
    ELSE IF taxable <= 2400000 THEN new_slab(6, taxable)
    ELSE new_slab(7, taxable)

\* a slip in the rebate test: < for <=
new_tax_rebate_strict(income_) ==
    LET taxable == income_ - 75000
    IN  IF taxable < 1200000 THEN Zero ELSE new_chain(taxable)

\* marginal relief above the rebate threshold: the tax is capped by the
\* income above 1,200,000, which smooths the cliff
new_tax_marginal_relief(income_) ==
    LET taxable == income_ - 75000
        relief  == FromInt(taxable - 1200000)
    IN  IF taxable <= 1200000 THEN Zero
        ELSE IF RatLeq(relief, new_chain(taxable)) THEN relief
        ELSE new_chain(taxable)

new_tax(income_) ==
    LET taxable == income_ - 75000
    IN  IF taxable <= 1200000 THEN Zero ELSE new_chain(taxable)

-----------------------------------------------------------------------------
(* tax2.py: its copies of the tax functions *)

old_tax_tax2(income_) ==
    LET taxable == Max(income_ - 50000, 0)
    IN  IF taxable <= 250000 THEN Zero
        ELSE IF taxable <= 500000
             THEN RatMul(FromInt(taxable - 250000), Rat(5, 100))
        ELSE IF taxable <= 1000000
             THEN RatAdd(RatMul(FromInt(250000), Rat(5, 100)),
                         RatMul(FromInt(taxable - 500000), Rat(20, 100)))
        ELSE RatAdd(RatAdd(RatMul(FromInt(250000), Rat(5, 100)),
                           RatMul(FromInt(500000), Rat(20, 100))),
                    RatMul(FromInt(taxable - 1000000), Rat(30, 100)))

\* the branches of tax2.new_tax's if-chain after the rebate test, in order
new_slab_tax2(k, taxable) ==
    LET s5  == RatMul(FromInt(400000), Rat(5, 100))
        s10 == RatMul(FromInt(400000), Rat(10, 100))
        s15 == RatMul(FromInt(400000), Rat(15, 100))
        s20 == RatMul(FromInt(400000), Rat(20, 100))
        s25 == RatMul(FromInt(400000), Rat(25, 100))
    IN  CASE k = 1 -> Zero
          [] k = 2 -> RatMul(FromInt(taxable - 400000), Rat(5, 100))
          [] k = 3 -> RatAdd(s5, RatMul(FromInt(taxable - 800000), Rat(10, 100)))
          [] k = 4 -> RatAdd(RatAdd(s5, s10),
                             RatMul(FromInt(taxable - 1200000), Rat(15, 100)))
          [] k = 5 -> RatAdd(RatAdd(RatAdd(s5, s10), s15),
                             RatMul(FromInt(taxable - 1200000 - 400000), Rat(20, 100)))
          [] k = 6 -> RatAdd(RatAdd(RatAdd(RatAdd(s5, s10), s15), s20),
                             RatMul(FromInt(taxable - 2000000), Rat(25, 100)))
          [] k = 7 -> RatAdd(RatAdd(RatAdd(RatAdd(RatAdd(s5, s10), s15), s20), s25),
                             RatMul(FromInt(taxable - 2400000), Rat(30, 100)))

\* a slip in the 20% branch: only 1,200,000 is subtracted
new_tax_tax2_short_offset(income_) ==
    LET taxable == income_ - 75000
    IN  IF taxable <= 1200000 THEN Zero
        ELSE IF taxable <= 1600000 THEN new_slab_tax2(4, taxable)
        ELSE IF taxable <= 2000000
             THEN RatAdd(new_slab_tax2(5, 1600000),
                         RatMul(FromInt(taxable - 1200000), Rat(20, 100)))
        ELSE IF taxable <= 2400000 THEN new_slab_tax2(6, taxable)
        ELSE new_slab_tax2(7, taxable)

new_tax_tax2(income_) ==
    LET taxable == income_ - 75000
    IN  IF taxable <= 1200000 THEN Zero
        ELSE IF taxable <= 400000 THEN new_slab_tax2(1, taxable)
        ELSE IF taxable <= 800000 THEN new_slab_tax2(2, taxable)
        ELSE IF taxable <= 1200000 THEN new_slab_tax2(3, taxable)
        ELSE IF taxable <= 1600000 THEN new_slab_tax2(4, taxable)
        ELSE IF taxable <= 2000000 THEN new_slab_tax2(5, taxable)
        ELSE IF taxable <= 2400000 THEN new_slab_tax2(6, taxable)
        ELSE new_slab_tax2(7, taxable)

-----------------------------------------------------------------------------
(* tax.py: its copies of the tax functions *)

old_tax_tax(income_) ==
    LET taxable == Max(income_ - 50000, 0)
    IN  IF taxable <= 250000 THEN Zero
        ELSE IF taxable <= 500000
             THEN RatMul(FromInt(taxable - 250000), Rat(5, 100))
        ELSE IF taxable <= 1000000
             THEN RatAdd(RatMul(FromInt(250000), Rat(5, 100)),
                         RatMul(FromInt(taxable - 500000), Rat(20, 100)))
        ELSE RatAdd(RatAdd(RatMul(FromInt(250000), Rat(5, 100)),
                           RatMul(FromInt(500000), Rat(20, 100))),
                    RatMul(FromInt(taxable - 1000000), Rat(30, 100)))

new_tax_tax(income_) ==
    LET taxable == income_ - 75000
        s5  == RatMul(FromInt(400000), Rat(5, 100))
        s10 == RatMul(FromInt(400000), Rat(10, 100))
        s15 == RatMul(FromInt(400000), Rat(15, 100))
        s20 == RatMul(FromInt(400000), Rat(20, 100))
        s25 == RatMul(FromInt(400000), Rat(25, 100))
    IN  IF taxable <= 1200000 THEN Zero
        ELSE IF taxable <= 400000 THEN Zero
        ELSE IF taxable <= 800000
             THEN RatMul(FromInt(taxable - 400000), Rat(5, 100))
        ELSE IF taxable <= 1200000
             THEN RatAdd(s5, RatMul(FromInt(taxable - 800000), Rat(10, 100)))
        ELSE IF taxable <= 1600000
             THEN RatAdd(RatAdd(s5, s10),
                         RatMul(FromInt(taxable - 1200000), Rat(15, 100)))
        ELSE IF taxable <= 2000000
             THEN RatAdd(RatAdd(RatAdd(s5, s10), s15),
                         RatMul(FromInt(taxable - 1600000), Rat(20, 100)))
        ELSE IF taxable <= 2400000
             THEN RatAdd(RatAdd(RatAdd(RatAdd(s5, s10), s15), s20),
                         RatMul(FromInt(taxable - 2000000), Rat(25, 100)))
        ELSE RatAdd(RatAdd(RatAdd(RatAdd(RatAdd(s5, s10), s15), s20), s25),
                    RatMul(FromInt(taxable - 2400000), Rat(30, 100)))

-----------------------------------------------------------------------------
(* Calls of the tax functions *)

\* gross incomes at which a branch of old_tax or new_tax starts, and 0
Thresholds ==
    {0} \cup {t + 50000 : t \in {0, 250000, 500000, 1000000}}
        \cup {t + 75000 : t \in {0, 400000, 800000, 1200000,
                                 1600000, 2000000, 2400000}}

\* the gross incomes the functions are called with
Incomes ==
    UNION {(g - Delta) .. (g + Delta) : g \in Thresholds}
        \cup {k * 250000 : k \in (-1) .. MaxGrid}

NoCall == [kind |-> "none"]

TaxIdle ==
    /\ pc = "off"
    /\ income = 0
    /\ old_ret = Pending
    /\ new_ret = Pending
    /\ tax2_ret = Pending
    /\ tax_ret = Pending
    /\ prev = NoCall

\* tax3.py, tax2.py and tax.py have not started the statements after the
\* function definitions
ScriptIdle ==
    /\ step = "off"
    /\ taxpayer_counts = << >>
    /\ todo = {}
    /\ slab_names = << >>
    /\ savings_per_taxpayer = << >>
    /\ num_taxpayers_slab = << >>
    /\ aggregate_savings_slab = << >>
    /\ total_aggregate_savings_AY2425 = Pending
    /\ avg_saving_AY2425 = Pending
    /\ real_total_savings_AY2425 = Pending
    /\ aggregate_savings_yearly = << >>
    /\ real_aggregate_savings_yearly = << >>
    /\ current_gdp = Pending
    /\ gdp_increase_nominal = Pending
    /\ gdp_outcome = Pending

\* tax.py has not started the statements after the function definitions
SampleIdle ==
    /\ sample_step = "off"
    /\ total_taxpayers = 0
    /\ incomes_sample = << >>
    /\ old_taxes = << >>
    /\ new_taxes = << >>
    /\ tax_savings = << >>
    /\ avg_saving_sample = Pending
    /\ total_savings = Pending

Init ==
    /\ pc = "old_tax"
    /\ income \in Incomes
    /\ old_ret = Pending
    /\ new_ret = Pending
    /\ tax2_ret = Pending
    /\ tax_ret = Pending
    /\ prev = NoCall
    /\ ScriptIdle
    /\ SampleIdle

\* tax3.old_tax(income)
CallOldTax ==
    /\ pc = "old_tax"
    /\ old_ret' = Return(old_tax(income))
    /\ pc' = "new_tax"
    /\ UNCHANGED <<income, new_ret, tax2_ret, tax_ret, prev, scriptVars, sampleVars>>

\* tax3.new_tax(income)
CallNewTax ==
    /\ pc = "new_tax"
    /\ new_ret' = Return(new_tax(income))
    /\ pc' = "tax2"
    /\ UNCHANGED <<income, old_ret, tax2_ret, tax_ret, prev, scriptVars, sampleVars>>

\* tax2.old_tax(income) and tax2.new_tax(income)
CallTax2 ==
    /\ pc = "tax2"
    /\ tax2_ret' = [old |-> Return(old_tax_tax2(income)),
                    new |-> Return(new_tax_tax2(income))]
    /\ pc' = "tax"
    /\ UNCHANGED <<income, old_ret, new_ret, tax_ret, prev, scriptVars, sampleVars>>

\* tax.old_tax(income) and tax.new_tax(income)
CallTax ==
    /\ pc = "tax"
    /\ tax_ret' = [old |-> Return(old_tax_tax(income)),
                   new |-> Return(new_tax_tax(income))]
    /\ pc' = "done"
    /\ UNCHANGED <<income, old_ret, new_ret, tax2_ret, prev, scriptVars, sampleVars>>

\* the caller goes on to another income
NextIncome ==
    /\ pc = "done"
    /\ \E i \in Incomes : income' = i
    /\ prev' = [kind |-> "call", income |-> income,
                old |-> old_ret, new |-> new_ret]
    /\ old_ret' = Pending
    /\ new_ret' = Pending
    /\ tax2_ret' = Pending
    /\ tax_ret' = Pending
    /\ pc' = "old_tax"
    /\ UNCHANGED <<scriptVars, sampleVars>>

Next == CallOldTax \/ CallNewTax \/ CallTax2 \/ CallTax \/ NextIncome

Spec == Init /\ [][Next]_vars

-----------------------------------------------------------------------------
(* tax3.py after the function definitions (tax2.py runs the same statements
   up to the yearly lists) *)

inflation_rate == Rat(522, 10000)

Years == << "AY 2021-22", "AY 2022-23", "AY 2023-24", "AY 2024-25" >>

taxpayer_distribution ==
    ("Up to 3 lakh" :> [percentage |-> Rat(50, 100), rep_income |-> 200000]) @@
    ("3-7 lakh" :> [percentage |-> Rat(30, 100), rep_income |-> 500000]) @@
    ("7-10 lakh" :> [percentage |-> Rat(10, 100), rep_income |-> 850000]) @@
    ("10-12 lakh" :> [percentage |-> Rat(5, 100), rep_income |-> 1100000]) @@
    ("12-15 lakh" :> [percentage |-> Rat(3, 100), rep_income |-> 1350000]) @@
    ("Above 15 lakh" :> [percentage |-> Rat(2, 100), rep_income |-> 2500000])

\* the GDP figure 296.58e12, in units of 10^8; zero and a negative figure too
GdpValues == {-(29658 * 100), 0, 29658 * 100}

total_taxpayers_AY2425 == taxpayer_counts["AY 2024-25"]

\* a slip in the saving: the new tax less the old tax
slab_saving_reversed(rep_income) ==
    RatSub(new_tax(rep_income), old_tax(rep_income))

\* saving = old_tax(rep_income) - new_tax(rep_income)
slab_saving(rep_income) ==
    RatSub(old_tax(rep_income), new_tax(rep_income))

\* Python's sum(s): 0 + s[1] + ... + s[n]
RECURSIVE PySum(_, _)
PySum(s, n) ==
    IF n = 0 THEN Zero ELSE RatAdd(PySum(s, n - 1), s[n])

\* a slip in the adjustment: division by the inflation rate, not by 1 + rate
real_value_by_rate(s) == RatDiv(s, inflation_rate)

\* s / (1 + inflation_rate)
real_value(s) == RatDiv(s, RatAdd(FromInt(1), inflation_rate))

\* the taxpayer counts tried: as in the scripts, no year has fewer taxpayers
\* than the year before
TaxpayerCounts ==
    {c \in [{Years[k] : k \in DOMAIN Years} -> 1 .. MaxTaxpayers] :
        \A k \in 1 .. (Len(Years) - 1) : c[Years[k]] <= c[Years[k + 1]]}

\* the script before the loop, the lists empty
ScriptStart ==
    /\ TaxIdle
    /\ SampleIdle
    /\ step = "loop"
    /\ todo = DOMAIN taxpayer_distribution
    /\ slab_names = << >>
    /\ savings_per_taxpayer = << >>
    /\ num_taxpayers_slab = << >>
    /\ aggregate_savings_slab = << >>
    /\ total_aggregate_savings_AY2425 = Pending
    /\ avg_saving_AY2425 = Pending
    /\ real_total_savings_AY2425 = Pending
    /\ aggregate_savings_yearly = << >>
    /\ real_aggregate_savings_yearly = << >>
    /\ current_gdp = Pending
    /\ gdp_increase_nominal = Pending
    /\ gdp_outcome = Pending

ScriptInit ==
    /\ taxpayer_counts \in TaxpayerCounts
    /\ ScriptStart

\* one pass of the loop over taxpayer_distribution.items(); the items come in
\* the order the dictionary was filled in, which is any order here
LoopBody ==
    /\ step = "loop"
    /\ \E slab \in todo :
          LET info       == taxpayer_distribution[slab]
              rep_income == info.rep_income
              percent    == info.percentage
              saving     == slab_saving(rep_income)
              count      == RatMul(FromInt(total_taxpayers_AY2425), percent)
          IN  /\ slab_names' = Append(slab_names, slab)
              /\ savings_per_taxpayer' = Append(savings_per_taxpayer, saving)
              /\ num_taxpayers_slab' = Append(num_taxpayers_slab, count)
              /\ aggregate_savings_slab' =
                     Append(aggregate_savings_slab, RatMul(saving, count))
              /\ todo' = todo \ {slab}
    /\ UNCHANGED <<step, taxpayer_counts, total_aggregate_savings_AY2425,
                   avg_saving_AY2425, real_total_savings_AY2425,
                   aggregate_savings_yearly, real_aggregate_savings_yearly,
                   current_gdp, gdp_increase_nominal, gdp_outcome, taxVars, sampleVars>>

\* the total, the average per taxpayer and the real total; Python's / raises
\* ZeroDivisionError for a zero divisor
Totals ==
    /\ step = "loop"
    /\ todo = {}
    /\ LET total == PySum(aggregate_savings_slab, Len(aggregate_savings_slab))
       IN  /\ total_aggregate_savings_AY2425' = total
           /\ IF total_taxpayers_AY2425 = 0
              THEN \* the division raises ZeroDivisionError and the script ends
                   /\ step' = "ZeroDivisionError"
                   /\ UNCHANGED <<avg_saving_AY2425, real_total_savings_AY2425>>
              ELSE /\ avg_saving_AY2425' =
                          RatDiv(total, FromInt(total_taxpayers_AY2425))
                   /\ real_total_savings_AY2425' = real_value(total)
                   /\ step' = "yearly"
    /\ UNCHANGED <<taxpayer_counts, todo, slab_names, savings_per_taxpayer,
                   num_taxpayers_slab, aggregate_savings_slab,
                   aggregate_savings_yearly, real_aggregate_savings_yearly,
                   current_gdp, gdp_increase_nominal, gdp_outcome, taxVars, sampleVars>>

\* the nominal and the real aggregate of every assessment year
Yearly ==
    /\ step = "yearly"
    /\ LET taxpayer_numbers == [k \in DOMAIN Years |-> taxpayer_counts[Years[k]]]
           nominal == [k \in DOMAIN Years |->
                          RatMul(avg_saving_AY2425, FromInt(taxpayer_numbers[k]))]
       IN  /\ aggregate_savings_yearly' = nominal
           /\ real_aggregate_savings_yearly' =
                  [k \in DOMAIN Years |-> real_value(nominal[k])]
    /\ step' = "gdp"
    /\ UNCHANGED <<taxpayer_counts, todo, slab_names, savings_per_taxpayer,
                   num_taxpayers_slab, aggregate_savings_slab,
                   total_aggregate_savings_AY2425, avg_saving_AY2425,
                   real_total_savings_AY2425, current_gdp,
                   gdp_increase_nominal, gdp_outcome, taxVars, sampleVars>>

\* the GDP estimate; Python's / raises ZeroDivisionError for a zero divisor
Gdp ==
    /\ step = "gdp"
    /\ \E gdp \in GdpValues :
          LET value_addition_multiplier == Rat(50, 100)
              increase == RatMul(real_total_savings_AY2425,
                                 value_addition_multiplier)
          IN  /\ gdp_increase_nominal' = increase
              /\ current_gdp' = gdp
              /\ gdp_outcome' =
                     IF gdp = 0
                     THEN [kind |-> "ZeroDivisionError"]
                     ELSE Return(RatMul(RatDiv(increase, FromInt(gdp)),
                                        FromInt(100)))
    /\ step' = "done"
    /\ UNCHANGED <<taxpayer_counts, todo, slab_names, savings_per_taxpayer,
                   num_taxpayers_slab, aggregate_savings_slab,
                   total_aggregate_savings_AY2425, avg_saving_AY2425,
                   real_total_savings_AY2425, aggregate_savings_yearly,
                   real_aggregate_savings_yearly, taxVars, sampleVars>>

ScriptNext == LoopBody \/ Totals \/ Yearly \/ Gdp

SpecScript == ScriptInit /\ [][ScriptNext]_vars

-----------------------------------------------------------------------------
(* tax.py after the function definitions *)

\* np.clip(x, 300000, 5000000)
Clip(x) == Min(Max(x, 300000), 5000000)

\* the incomes drawn before clipping: all positive, some below 300,000, one
\* above 5,000,000, and the two incomes at the rebate cliff
RawIncomes ==
    {k * 250000 : k \in 1 .. MaxGrid} \cup {1275000, 1275001, 5000001}

\* a slip in the saving: the new taxes less the old taxes
sample_saving_reversed(old, new) == RatSub(new, old)

\* one element of old_taxes - new_taxes
sample_saving(old, new) == RatSub(old, new)

SampleInit ==
    /\ TaxIdle
    /\ ScriptIdle
    /\ sample_step = "clip"
    /\ total_taxpayers \in 0 .. MaxTaxpayers
    /\ incomes_sample \in UNION {[1 .. n -> RawIncomes] : n \in 1 .. MaxSample}
    /\ old_taxes = << >>
    /\ new_taxes = << >>
    /\ tax_savings = << >>
    /\ avg_saving_sample = Pending
    /\ total_savings = Pending

\* incomes_sample = np.clip(incomes_sample, 300000, 5000000)
ClipSample ==
    /\ sample_step = "clip"
    /\ incomes_sample' = [k \in DOMAIN incomes_sample |-> Clip(incomes_sample[k])]
    /\ sample_step' = "taxes"
    /\ UNCHANGED <<total_taxpayers, old_taxes, new_taxes, tax_savings,
                   avg_saving_sample, total_savings, taxVars, scriptVars>>

\* old_taxes and new_taxes of the sample
SampleTaxes ==
    /\ sample_step = "taxes"
    /\ old_taxes' = [k \in DOMAIN incomes_sample |-> old_tax_tax(incomes_sample[k])]
    /\ new_taxes' = [k \in DOMAIN incomes_sample |-> new_tax_tax(incomes_sample[k])]
    /\ sample_step' = "savings"
    /\ UNCHANGED <<total_taxpayers, incomes_sample, tax_savings,
                   avg_saving_sample, total_savings, taxVars, scriptVars>>

\* tax_savings = old_taxes - new_taxes
SampleSavings ==
    /\ sample_step = "savings"
    /\ tax_savings' = [k \in DOMAIN old_taxes |->
                          sample_saving(old_taxes[k], new_taxes[k])]
    /\ sample_step' = "mean"
    /\ UNCHANGED <<total_taxpayers, incomes_sample, old_taxes, new_taxes,
                   avg_saving_sample, total_savings, taxVars, scriptVars>>

\* avg_saving_sample = np.mean(tax_savings) and the total for all taxpayers
SampleTotals ==
    /\ sample_step = "mean"
    /\ LET avg == RatDiv(PySum(tax_savings, Len(tax_savings)),
                         FromInt(Len(tax_savings)))
       IN  /\ avg_saving_sample' = avg
           /\ total_savings' = RatMul(avg, FromInt(total_taxpayers))
    /\ sample_step' = "done"
    /\ UNCHANGED <<total_taxpayers, incomes_sample, old_taxes, new_taxes,
                   tax_savings, taxVars, scriptVars>>

SampleNext == ClipSample \/ SampleTaxes \/ SampleSavings \/ SampleTotals

-----------------------------------------------------------------------------
(* The calls of the tax functions, the run of tax3.py (a population of zero
   included) and the run of tax.py, taken together *)

\* tax3.py with no taxpayer in any year
ScriptInitNoTaxpayers ==
    /\ taxpayer_counts = [y \in {Years[k] : k \in DOMAIN Years} |-> 0]
    /\ ScriptStart

SavingsInit == Init \/ ScriptInit \/ ScriptInitNoTaxpayers \/ SampleInit

SavingsNext == Next \/ ScriptNext \/ SampleNext

SpecSavings == SavingsInit /\ [][SavingsNext]_vars

-----------------------------------------------------------------------------
(* Properties of the tax functions, checked under Spec *)

\* 60,000.15 = 20,000 + 40,000 + 1 x 0.15
CliffTax == RatAdd(RatAdd(FromInt(20000), FromInt(40000)), Rat(15, 100))

\* C1, as stated: a gross income of 1,275,001 under the new regime is taxed
\* 20,000 + 40,000 + 60,000 + 1 x 0.15 = 120,000.15.
C1_TaxAboveCliffIs120000_15 ==
    (pc = "done" /\ income = 1275001)
        => /\ new_ret = Return(Rat(12000015, 100))
           /\ tax_ret.new = Return(Rat(12000015, 100))

\* C1, amended: a gross income of 1,275,001 (taxable income 1,200,001) under
\* the new regime is taxed 20,000 + 40,000 + 1 x 0.15 = 60,000.15 by tax3.py
\* and by tax.py: the 5% and 10% slabs in full and one unit at 15%, with no
\* smoothing.
C1_TaxAboveCliffIs60000_15 ==
    (pc = "done" /\ income = 1275001)
        => /\ new_ret = Return(CliffTax)
           /\ tax_ret.new = Return(CliffTax)
           /\ CliffTax = [num |-> 1200003, den |-> 20]

C1_Witness ==
    /\ pc = "done"
    /\ income = 1275001
    /\ new_ret.kind = "return"
    /\ tax_ret.new.kind = "return"

\* C2: new_tax is exactly 0 for every gross income whose taxable income
\* (gross - 75,000) is <= 1,200,000, gross incomes below the standard
\* deduction included, and strictly positive for every gross income whose
\* taxable income is > 1,200,000; so do the copies of tax2.py and tax.py.
C2_RebateCliff ==
    pc = "done" =>
        LET rets == {new_ret, tax2_ret.new, tax_ret.new}
        IN  /\ income - 75000 <= 1200000 => rets = {Return(Zero)}
            /\ income - 75000 > 1200000 =>
                   \A r \in rets : r.kind = "return" /\ r.value.num > 0

\* the calls at 1,275,000 and then at 1,275,001
C2_Witness ==
    /\ pc = "done"
    /\ prev.kind = "call"
    /\ prev.income = 1275000
    /\ prev.new = Return(Zero)
    /\ income = 1275001
    /\ new_ret.value.num > 0

\* the slabs of the old regime: lower bound, upper bound (0: none), rate
OldSlabs ==
    << [lower |-> 0,       upper |-> 250000,  rate |-> Rat(0, 100)],
       [lower |-> 250000,  upper |-> 500000,  rate |-> Rat(5, 100)],
       [lower |-> 500000,  upper |-> 1000000, rate |-> Rat(20, 100)],
       [lower |-> 1000000, upper |-> 0,       rate |-> Rat(30, 100)] >>

\* rate * (min(taxable, upper) - min(taxable, lower)) of one slab
SlabTerm(slab, taxable) ==
    LET top == IF slab.upper = 0 THEN taxable ELSE Min(taxable, slab.upper)
    IN  RatMul(slab.rate, FromInt(top - Min(taxable, slab.lower)))

RECURSIVE SlabSum(_, _, _)
SlabSum(slabs, n, taxable) ==
    IF n = 0 THEN Zero
    ELSE RatAdd(SlabSum(slabs, n - 1, taxable), SlabTerm(slabs[n], taxable))

\* C3: for every gross income >= 0, old_tax is the progressive slab sum over
\* taxable = max(gross - 50,000, 0); a gross income of 750,000 gives 52,500.
C3_OldTaxIsSlabSum ==
    (old_ret.kind = "return" /\ income >= 0)
        => /\ old_ret.value = SlabSum(OldSlabs, Len(OldSlabs), Max(income - 50000, 0))
           /\ income = 750000 => old_ret.value = FromInt(52500)

C3_Witness ==
    /\ income = 750000
    /\ old_ret = Return(FromInt(52500))

\* both gross incomes are on the same side of the rebate cliff
SameSide(i1, i2) ==
    \/ i1 <= 1275000 /\ i2 <= 1275000
    \/ i1 > 1275000 /\ i2 > 1275000

\* C4: for gross incomes 0 <= i1 < i2, old_tax(i1) <= old_tax(i2), and
\* new_tax(i1) <= new_tax(i2) when i1 and i2 are on the same side of the
\* rebate cliff.
C4_Monotone ==
    (pc = "done" /\ prev.kind = "call" /\ 0 <= prev.income /\ prev.income < income)
        => /\ RatLeq(prev.old.value, old_ret.value)
           /\ SameSide(prev.income, income)
                  => RatLeq(prev.new.value, new_ret.value)

C4_Witness ==
    /\ pc = "done"
    /\ prev.kind = "call"
    /\ prev.income > 1275000
    /\ prev.income < income
    /\ RatLt(prev.old.value, old_ret.value)
    /\ RatLt(prev.new.value, new_ret.value)

\* taxable incomes at which branch k of old_tax ends and branch k + 1 starts
OldBoundary == [k \in 1 .. 3 |-> << 250000, 500000, 1000000 >>[k]]

\* the same for new_tax, above the rebate cliff
NewBoundary == [k \in 4 .. 6 |-> << 0, 0, 0, 1600000, 2000000, 2400000 >>[k]]

\* C5: at every slab boundary b of the taxable income (old regime: 250,000,
\* 500,000, 1,000,000; new regime above the cliff: 1,600,000, 2,000,000,
\* 2,400,000) the tax returned, which the branch of the slab ending at b
\* computes, is what the formula of the slab starting at b gives at b.
C5_ContinuousAtBoundaries ==
    pc = "done" =>
        /\ \A k \in DOMAIN OldBoundary :
               Max(income - 50000, 0) = OldBoundary[k]
                   => old_ret.value = old_slab(k + 1, OldBoundary[k])
        /\ \A k \in DOMAIN NewBoundary :
               income - 75000 = NewBoundary[k]
                   => /\ new_ret.value = new_slab(k + 1, NewBoundary[k])
                      /\ tax2_ret.new.value = new_slab_tax2(k + 1, NewBoundary[k])

C5_Witness ==
    /\ pc = "done"
    /\ income - 75000 = 2000000
    /\ new_ret = Return(FromInt(200000))
    /\ new_slab(6, 2000000) = FromInt(200000)

\* C6: the tax of a negative gross income ends in an InvalidIncomeError under
\* either regime, and never in a tax value.
C6_NegativeIncomeIsAnError ==
    (pc = "done" /\ income < 0)
        => /\ old_ret.kind = "InvalidIncomeError"
           /\ new_ret.kind = "InvalidIncomeError"

\* C10: for every gross income, old_tax of tax.py, tax2.py and tax3.py return
\* the same value, and so do the three new_tax.
C10_CopiesAgree ==
    pc = "done" =>
        /\ tax2_ret.old = old_ret
        /\ tax_ret.old = old_ret
        /\ tax2_ret.new = new_ret
        /\ tax_ret.new = new_ret

\* a call in the slab that tax2.py writes as taxable - 1200000 - 400000
C10_Witness ==
    /\ pc = "done"
    /\ income - 75000 > 1600000
    /\ income - 75000 < 2000000
    /\ tax2_ret.new = new_ret
    /\ new_ret.value.num > 0

-----------------------------------------------------------------------------
(* Properties of the aggregation, checked under SpecScript *)

\* the order in which the scripts write the items of taxpayer_distribution
SourceOrder ==
    << "Up to 3 lakh", "3-7 lakh", "7-10 lakh", "10-12 lakh", "12-15 lakh",
       "Above 15 lakh" >>

\* (old_tax(rep_income) - new_tax(rep_income)) * (total_population * fraction)
\* summed over the first n segments of SourceOrder
RECURSIVE WeightedSum(_, _)
WeightedSum(total_population, n) ==
    IF n = 0 THEN Zero
    ELSE LET info == taxpayer_distribution[SourceOrder[n]]
         IN  RatAdd(WeightedSum(total_population, n - 1),
                    RatMul(RatSub(old_tax(info.rep_income), new_tax(info.rep_income)),
                           RatMul(FromInt(total_population), info.percentage)))

\* C7: once every segment has been processed, total_nominal_saving is the sum
\* over all segments of (old_tax(rep_income) - new_tax(rep_income)) *
\* (total_population * population_fraction), whatever the order in which the
\* segments were processed.
C7_TotalIsWeightedSum ==
    step \in {"yearly", "gdp", "done"}
        => total_aggregate_savings_AY2425
               = WeightedSum(total_taxpayers_AY2425, Len(SourceOrder))

\* the segments were processed in another order than the scripts write them
C7_Witness ==
    /\ step = "done"
    /\ slab_names # SourceOrder
    /\ slab_names[1] = "Above 15 lakh"
    /\ Len(aggregate_savings_slab) = Len(SourceOrder)
    /\ total_aggregate_savings_AY2425
           = RatMul(Rat(253625, 10), FromInt(total_taxpayers_AY2425))

\* C8: every year's nominal aggregate is the one average saving per taxpayer
\* (the AY 2024-25 total divided by the AY 2024-25 taxpayer count) times that
\* year's taxpayer count, and the year's real aggregate times
\* (1 + inflation_rate) is that nominal aggregate.
C8_YearlyProjection ==
    step \in {"gdp", "done"} =>
        /\ DOMAIN aggregate_savings_yearly = DOMAIN Years
        /\ DOMAIN real_aggregate_savings_yearly = DOMAIN Years
        /\ avg_saving_AY2425 = Rat(253625, 10)
        /\ \A k \in DOMAIN Years :
               LET n == taxpayer_counts[Years[k]]
               IN  /\ RatMul(aggregate_savings_yearly[k],
                             FromInt(total_taxpayers_AY2425))
                          = RatMul(total_aggregate_savings_AY2425, FromInt(n))
                   /\ RatMul(real_aggregate_savings_yearly[k],
                             Rat(10522, 10000))
                          = aggregate_savings_yearly[k]

\* a year with fewer taxpayers than the next year and than AY 2024-25
C8_Witness ==
    /\ step = "done"
    /\ taxpayer_counts["AY 2021-22"] < taxpayer_counts["AY 2022-23"]
    /\ taxpayer_counts["AY 2021-22"] < total_taxpayers_AY2425
    /\ RatLt(aggregate_savings_yearly[1], aggregate_savings_yearly[2])
    /\ RatLt(real_aggregate_savings_yearly[1], aggregate_savings_yearly[1])

-----------------------------------------------------------------------------
(* Properties of the savings, checked under SpecSavings *)

NonNegative(x) == x.num >= 0

\* C11: for every gross income >= 0, new_tax(income) <= old_tax(income) in
\* each of the three files; every per-segment saving, every segment count and
\* segment aggregate and the total of tax3.py's loop are >= 0, a population of
\* zero included; every saving of tax.py's sample, their mean and the total
\* for all taxpayers are >= 0.
C11_SavingsNonNegative ==
    /\ (pc = "done" /\ income >= 0)
           => /\ RatLeq(new_ret.value, old_ret.value)
              /\ RatLeq(tax2_ret.new.value, tax2_ret.old.value)
              /\ RatLeq(tax_ret.new.value, tax_ret.old.value)
    /\ \A k \in DOMAIN savings_per_taxpayer :
           /\ NonNegative(savings_per_taxpayer[k])
           /\ NonNegative(num_taxpayers_slab[k])
           /\ NonNegative(aggregate_savings_slab[k])
    /\ step \in {"yearly", "gdp", "done", "ZeroDivisionError"}
           => NonNegative(total_aggregate_savings_AY2425)
    /\ \A k \in DOMAIN tax_savings : NonNegative(tax_savings[k])
    /\ sample_step = "done"
           => /\ NonNegative(avg_saving_sample)
              /\ NonNegative(total_savings)

\* tax.py's sample holds the two incomes at the rebate cliff, the saving
\* 180,000 at 1,275,000 and the smaller saving 120,000.15 at 1,275,001
C11_Witness ==
    /\ sample_step = "done"
    /\ incomes_sample = << 1275000, 1275001 >>
    /\ tax_savings = << FromInt(180000), Rat(12000015, 100) >>
    /\ total_taxpayers > 0
    /\ total_savings.num > 0

=============================================================================
